---- MODULE Spec2Model ----
(***************************************************************************)
(* Model of the two command-line tools of the repository:                  *)
(*   - vault_toc_generator.py: parse_markdown_structure, the two Mermaid   *)
(*     generators and generate_markdown_with_diagram (regenerate mode);    *)
(*   - folder_tree.py: build_tree and generate_tree.                       *)
(* A Python str is a sequence of one-character strings; a list of lines is *)
(* a sequence of such sequences.                                           *)
(***************************************************************************)
EXTENDS Integers, Sequences, FiniteSets, TLC

VARIABLES
    file,          \* content of the markdown file read and written by regenerate mode
    prev,          \* content of the file before the latest regenerate run
    title,         \* args.title
    diagram_type,  \* args.diagram
    config,        \* the TocConfig last parsed or handed to a generator
    runs,          \* number of regenerate runs done on the file
    mindmap,       \* text returned by generate_mermaid_mindmap(config)
    flowchart,     \* text returned by generate_mermaid_flowchart(config)
    fs,            \* the directory tree below the root path
    opts,          \* build_tree's keyword arguments
    tree,          \* text returned by generate_tree
    tree_lines,    \* lines returned by build_tree
    pc

vars == <<file, prev, title, diagram_type, config, runs, mindmap, flowchart,
          fs, opts, tree, tree_lines, pc>>

----------------------------------------------------------------------------
(* Bounds of the model *)

MaxLines == 4
MaxRuns == 2
MaxNodes == 5
MaxEntries == 3
MaxDepth == 2

----------------------------------------------------------------------------
(* Python str operations *)

NL == "\n"

\* the characters str.strip / rstrip / lstrip remove
Whitespace == {" ", "\t", "\n", "\r"}

\* str.startswith(p); re.match('^p', s) for a literal p
StartsWith(s, p) ==
    /\ Len(s) >= Len(p)
    /\ SubSeq(s, 1, Len(p)) = p

\* s[i:] with a 1-based i
From(s, i) == SubSeq(s, i, Len(s))

\* 1-based index of the first occurrence of sub in s at or after i, 0 if none
RECURSIVE Find(_, _, _)
Find(s, sub, i) ==
    IF i + Len(sub) - 1 > Len(s) THEN 0
    ELSE IF SubSeq(s, i, i + Len(sub) - 1) = sub THEN i
    ELSE Find(s, sub, i + 1)

\* str.replace(old, new): every non-overlapping occurrence, left to right
RECURSIVE Replace(_, _, _)
Replace(s, old, new) ==
    LET p == Find(s, old, 1) IN
    IF p = 0 THEN s
    ELSE SubSeq(s, 1, p - 1) \o new \o Replace(From(s, p + Len(old)), old, new)

RECURSIVE RStrip(_)
RStrip(s) ==
    IF s # <<>> /\ s[Len(s)] \in Whitespace THEN RStrip(SubSeq(s, 1, Len(s) - 1))
    ELSE s

RECURSIVE LStrip(_)
LStrip(s) ==
    IF s # <<>> /\ s[1] \in Whitespace THEN LStrip(Tail(s))
    ELSE s

Strip(s) == LStrip(RStrip(s))

\* str.split('\n'): the list of lines, never empty
RECURSIVE Split(_)
Split(s) ==
    LET p == Find(s, <<NL>>, 1) IN
    IF p = 0 THEN <<s>>
    ELSE <<SubSeq(s, 1, p - 1)>> \o Split(From(s, p + 1))

\* "\n".join(lines)
RECURSIVE Join(_)
Join(lines) ==
    IF lines = <<>> THEN <<>>
    ELSE IF Len(lines) = 1 THEN lines[1]
    ELSE lines[1] \o <<NL>> \o Join(Tail(lines))

Min(S) == CHOOSE x \in S : \A y \in S : x <= y
Max(S) == CHOOSE x \in S : \A y \in S : x >= y

\* the elements of a finite set of numbers in increasing order
RECURSIVE Sorted(_)
Sorted(S) == IF S = {} THEN <<>> ELSE <<Min(S)>> \o Sorted(S \ {Min(S)})

\* str(n) for a natural number n
Digit(n) == <<"0", "1", "2", "3", "4", "5", "6", "7", "8", "9">>[n + 1]

RECURSIVE Str(_)
Str(n) == IF n < 10 THEN <<Digit(n)>> ELSE Str(n \div 10) \o <<Digit(n % 10)>>

----------------------------------------------------------------------------
(* vault_toc_generator.py: parse_markdown_structure *)

H3 == <<"#", "#", "#", " ">>
H4 == <<"#", "#", "#", "#", " ">>
LinkOpen == <<"-", " ", "[", "[">>
LinkClose == <<"]", "]">>

None == "None"

\* the locals of the loop before its first iteration
ParserInit == [sections |-> <<>>, current_section |-> 0, current_subsection |-> <<>>]

\* re.search(r'\[\[(.*?)\]\]', line) on a line that starts with "- [[":
\* 0 if there is no match, else the index of the "]]" that ends group 1
LinkEnd(line) == Find(line, LinkClose, Len(LinkOpen) + 1)

\* file_name.group(1)
LinkName(line) == SubSeq(line, Len(LinkOpen) + 1, LinkEnd(line) - 1)

\* line.replace('### ', '').strip()
SectionName(line) == Strip(Replace(line, H3, <<>>))

\* line.replace('#### ', '').strip()
SubsectionName(line) == Strip(Replace(line, H4, <<>>))

\* OpenSection without `current_subsection = None`
OpenSectionKeepsSubsection(st, line) ==
    [sections |-> Append(st.sections,
                         [name |-> SectionName(line), files |-> <<>>, subsections |-> <<>>]),
     current_section |-> Len(st.sections) + 1,
     current_subsection |-> st.current_subsection]

\* the `### ` branch: a new current_section, appended to sections
OpenSection(st, line) ==
    [sections |-> Append(st.sections,
                         [name |-> SectionName(line), files |-> <<>>, subsections |-> <<>>]),
     current_section |-> Len(st.sections) + 1,
     current_subsection |-> <<>>]

\* the `#### ` branch: current_subsection references a dict of current_section
OpenSubsection(st, line) ==
    IF st.current_section # 0
    THEN LET c == st.current_section
             subs == st.sections[c].subsections
         IN [st EXCEPT
               !.sections[c].subsections =
                   Append(subs, [name |-> SubsectionName(line), files |-> <<>>]),
               !.current_subsection = <<c, Len(subs) + 1>>]
    ELSE st

\* the `- [[` branch
AddLink(st, line) ==
    IF LinkEnd(line) = 0 THEN st
    ELSE IF st.current_subsection # <<>>
    THEN LET c == st.current_subsection[1]
             u == st.current_subsection[2]
         IN [st EXCEPT !.sections[c].subsections[u].files = Append(@, LinkName(line))]
    ELSE IF st.current_section # 0
    THEN [st EXCEPT !.sections[st.current_section].files = Append(@, LinkName(line))]
    ELSE st

\* one iteration of `for line in lines`
ParseLine(st, line) ==
    IF StartsWith(line, H3) THEN OpenSection(st, line)
    ELSE IF StartsWith(line, H4) THEN OpenSubsection(st, line)
    ELSE IF StartsWith(line, LinkOpen) THEN AddLink(st, line)
    ELSE st

RECURSIVE ParseLines(_, _)
ParseLines(st, lines) ==
    IF lines = <<>> THEN st
    ELSE ParseLines(ParseLine(st, Head(lines)), Tail(lines))

parse_markdown_structure(markdown_text, t) ==
    [title |-> t, sections |-> ParseLines(ParserInit, Split(markdown_text)).sections]

----------------------------------------------------------------------------
(* vault_toc_generator.py: the Mermaid generators *)

\* the character ` (U+0060), which a TLA+ string cannot hold
Backtick == "GRAVE"

MermaidFence == <<Backtick, Backtick, Backtick, "m", "e", "r", "m", "a", "i", "d">>
Fence == <<Backtick, Backtick, Backtick>>
MindmapHeader == <<"m", "i", "n", "d", "m", "a", "p">>
RootOpen == <<" ", " ", "r", "o", "o", "t", "(", "(", "(">>
RootClose == <<")", ")", ")", ")">>
FlowchartHeader == <<"f", "l", "o", "w", "c", "h", "a", "r", "t", " ", "T", "D">>
DotMd == <<".", "m", "d">>
DotMD == <<".", "M", "D">>
Arrow == <<" ", "-", "-", ">", " ">>
LabelOpen == <<"[", "\"">>
LabelClose == <<"\"", "]">>

Spaces(n) == [i \in 1..n |-> " "]

\* file.replace(".md", "").replace(".MD", "")
DisplayName(f) == Replace(Replace(f, DotMd, <<>>), DotMD, <<>>)

\* name.replace("(", "\\(").replace(")", "\\)")
EscapeParens(s) == Replace(Replace(s, <<"(">>, <<"\\", "(">>), <<")">>, <<"\\", ")">>)

\* name.replace("\"", '\\"')
EscapeQuotes(s) == Replace(s, <<"\"">>, <<"\\", "\"">>)

\* f"  root((({title}))))": the title is formatted in as it is
MindmapRoot(t) == RootOpen \o t \o RootClose

MindmapFileLines(files, indent) ==
    [i \in 1..Len(files) |-> Spaces(indent) \o EscapeParens(DisplayName(files[i]))]

RECURSIVE MindmapSubsections(_)
MindmapSubsections(subs) ==
    IF subs = <<>> THEN <<>>
    ELSE <<Spaces(6) \o EscapeParens(Head(subs).name)>>
         \o MindmapFileLines(Head(subs).files, 8)
         \o MindmapSubsections(Tail(subs))

RECURSIVE MindmapSections(_)
MindmapSections(sections) ==
    IF sections = <<>> THEN <<>>
    ELSE <<Spaces(4) \o EscapeParens(Head(sections).name)>>
         \o MindmapFileLines(Head(sections).files, 6)
         \o MindmapSubsections(Head(sections).subsections)
         \o MindmapSections(Tail(sections))

generate_mermaid_mindmap(c) ==
    Join(<<MermaidFence, MindmapHeader, MindmapRoot(c.title)>>
         \o MindmapSections(c.sections)
         \o <<Fence>>)

Us == <<"_">>
RootId == <<"r", "o", "o", "t">>

\* f"section_{section_idx}", with the 0-based index of enumerate
SectionId(s) == <<"s", "e", "c", "t", "i", "o", "n">> \o Us \o Str(s)

\* FileId without the running node_counter
FileIdWithoutCounter(s, counter) == <<"f", "i", "l", "e">> \o Us \o Str(s)

\* f"file_{section_idx}_{node_counter}"
FileId(s, counter) == <<"f", "i", "l", "e">> \o Us \o Str(s) \o Us \o Str(counter)

\* f"subsection_{section_idx}_{sub_idx}"
SubsectionId(s, u) ==
    <<"s", "u", "b", "s", "e", "c", "t", "i", "o", "n">> \o Us \o Str(s) \o Us \o Str(u)

\* f"subfile_{section_idx}_{sub_idx}_{file_idx}"
SubfileId(s, u, f) ==
    <<"s", "u", "b", "f", "i", "l", "e">> \o Us \o Str(s) \o Us \o Str(u) \o Us \o Str(f)

\* f"    {id}[\"{label}\"]"
NodeLine(id, label) == Spaces(4) \o id \o LabelOpen \o label \o LabelClose

\* f"    {a} --> {b}"
EdgeLine(a, b) == Spaces(4) \o a \o Arrow \o b

\* the loop over section["files"]; node_counter is `counter` before the loop
RECURSIVE FlowFiles(_, _, _)
FlowFiles(files, s, counter) ==
    IF files = <<>> THEN <<>>
    ELSE <<NodeLine(FileId(s, counter), EscapeQuotes(DisplayName(Head(files)))),
           EdgeLine(SectionId(s), FileId(s, counter))>>
         \o FlowFiles(Tail(files), s, counter + 1)

\* the loop over subsection["files"], from the 0-based index f on
RECURSIVE FlowSubfiles(_, _, _, _)
FlowSubfiles(files, s, u, f) ==
    IF f >= Len(files) THEN <<>>
    ELSE <<NodeLine(SubfileId(s, u, f), EscapeQuotes(DisplayName(files[f + 1]))),
           EdgeLine(SubsectionId(s, u), SubfileId(s, u, f))>>
         \o FlowSubfiles(files, s, u, f + 1)

\* the loop over section["subsections"], from the 0-based index u on
RECURSIVE FlowSubsections(_, _, _)
FlowSubsections(subs, s, u) ==
    IF u >= Len(subs) THEN <<>>
    ELSE <<NodeLine(SubsectionId(s, u), EscapeQuotes(subs[u + 1].name)),
           EdgeLine(SectionId(s), SubsectionId(s, u))>>
         \o FlowSubfiles(subs[u + 1].files, s, u, 0)
         \o FlowSubsections(subs, s, u + 1)

\* the loop over config["sections"], from the 0-based index s on
RECURSIVE FlowSections(_, _, _)
FlowSections(sections, s, counter) ==
    IF s >= Len(sections) THEN <<>>
    ELSE <<NodeLine(SectionId(s), EscapeQuotes(sections[s + 1].name)),
           EdgeLine(RootId, SectionId(s))>>
         \o FlowFiles(sections[s + 1].files, s, counter)
         \o FlowSubsections(sections[s + 1].subsections, s, 0)
         \o FlowSections(sections, s + 1, counter + Len(sections[s + 1].files))

generate_mermaid_flowchart(c) ==
    Join(<<MermaidFence, FlowchartHeader, NodeLine(RootId, EscapeQuotes(c.title))>>
         \o FlowSections(c.sections, 0, 0)
         \o <<Fence>>)

----------------------------------------------------------------------------
(* vault_toc_generator.py: generate_markdown_with_diagram *)

Diagram(c, dt) ==
    IF dt = "flowchart" THEN generate_mermaid_flowchart(c)
    ELSE generate_mermaid_mindmap(c)

\* 1-based index of the first line at or after i that starts with ```mermaid,
\* 0 when the scan ends without one (diagram_start is None)
RECURSIVE DiagramStart(_, _)
DiagramStart(lines, i) ==
    IF i > Len(lines) THEN 0
    ELSE IF StartsWith(lines[i], MermaidFence) THEN i
    ELSE DiagramStart(lines, i + 1)

\* the scan for the closing fence: the first i > start whose line starts with
\* ```, and start itself when there is none
RECURSIVE DiagramEnd(_, _, _)
DiagramEnd(lines, start, i) ==
    IF i > Len(lines) THEN start
    ELSE IF StartsWith(lines[i], Fence) /\ i > start THEN i
    ELSE DiagramEnd(lines, start, i + 1)

generate_markdown_with_diagram(c, markdown_content, dt) ==
    LET diagram == Diagram(c, dt)
        lines == Split(markdown_content)
        diagram_start == DiagramStart(lines, 1)
    IN IF diagram_start # 0
       THEN LET diagram_end == DiagramEnd(lines, diagram_start, diagram_start)
                content_before == RStrip(Join(SubSeq(lines, 1, diagram_start - 1)))
                content_after == LStrip(Join(SubSeq(lines, diagram_end + 1, Len(lines))))
                result == content_before \o <<NL, NL>> \o diagram
            IN IF content_after # <<>>
               THEN result \o <<NL, NL>> \o content_after
               ELSE result
       ELSE diagram \o <<NL, NL>> \o markdown_content

----------------------------------------------------------------------------
(* Inputs of the regenerate mode: markdown files of at most MaxLines lines *)

SeqsUpTo(S, n) == UNION {[1..k -> S] : k \in 0..n}

\* lines of the heading / link grammar
GrammarLines ==
    { H3 \o <<"A">>,
      H4 \o <<"B">>,
      LinkOpen \o <<"f">> \o LinkClose,
      <<" ", " ">> \o H3 \o <<"C">>,
      H3 \o <<"a", " ">> \o H3 \o <<"b">> }

\* lines of a document that holds diagram blocks
BlockLines ==
    { MermaidFence,
      Fence,
      <<"x">>,
      <<>>,
      H3 \o <<"A">> }

Docs == {Join(ls) : ls \in SeqsUpTo(GrammarLines, MaxLines) \cup SeqsUpTo(BlockLines, MaxLines)}

Titles == { <<"T">>, <<"A", "(", "b", ")">> }

DiagramTypes == {"mindmap", "flowchart"}

----------------------------------------------------------------------------
(* vault_toc_generator.py: main, mode 2 (-i FILE -d STYLE -o FILE) *)

Init ==
    /\ file \in Docs
    /\ prev = <<>>
    /\ title \in Titles
    /\ diagram_type \in DiagramTypes
    /\ config = None
    /\ runs = 0
    /\ mindmap = <<>>
    /\ flowchart = <<>>
    /\ fs = None
    /\ opts = None
    /\ tree = <<>>
    /\ tree_lines = <<>>
    /\ pc = "regenerate"

\* one run of the tool on the file: parse it, compose the diagram into it and
\* write the result back
Regenerate ==
    /\ pc = "regenerate"
    /\ runs < MaxRuns
    /\ config' = parse_markdown_structure(file, title)
    /\ file' = generate_markdown_with_diagram(config', file, diagram_type)
    /\ prev' = file
    /\ runs' = runs + 1
    /\ UNCHANGED <<title, diagram_type, mindmap, flowchart, fs, opts, tree, tree_lines, pc>>

Next == Regenerate

Spec == Init /\ [][Next]_vars

----------------------------------------------------------------------------
(* The generators on their own: every TocConfig of at most MaxNodes nodes *)

SectionNames == { <<"S">> }
SubsectionNames == { <<"U">> }
FileNames == { <<"a", ".", "m", "d">>, <<"[", "\"", ".", "m", "d", ".", "x">> }

\* the section lists with one more section, subsection or file at the end
Extend(secs) ==
    LET n == Len(secs)
        m == Len(secs[n].subsections)
    IN {Append(secs, [name |-> nm, files |-> <<>>, subsections |-> <<>>]) :
           nm \in SectionNames}
       \cup (IF n = 0 THEN {}
             ELSE {[secs EXCEPT ![n].files = Append(@, f)] : f \in FileNames}
                  \cup {[secs EXCEPT ![n].subsections =
                                        Append(@, [name |-> nm, files |-> <<>>])] :
                           nm \in SubsectionNames}
                  \cup (IF m = 0 THEN {}
                        ELSE {[secs EXCEPT ![n].subsections[m].files = Append(@, f)] :
                                 f \in FileNames}))

RECURSIVE SectionLists(_)
SectionLists(n) ==
    IF n = 0 THEN {<<>>}
    ELSE LET smaller == SectionLists(n - 1)
         IN smaller \cup UNION {Extend(secs) : secs \in smaller}

InitDiagram ==
    /\ config \in [title : Titles, sections : SectionLists(MaxNodes)]
    /\ title = config.title
    /\ diagram_type \in DiagramTypes
    /\ mindmap = <<>>
    /\ flowchart = <<>>
    /\ file = <<>>
    /\ prev = <<>>
    /\ runs = 0
    /\ fs = None
    /\ opts = None
    /\ tree = <<>>
    /\ tree_lines = <<>>
    /\ pc = "generate"

\* generate_markdown_with_diagram's choice of the generator, lines 201-204
GenerateMindmap ==
    /\ pc = "generate"
    /\ diagram_type # "flowchart"
    /\ mindmap = <<>>
    /\ mindmap' = generate_mermaid_mindmap(config)
    /\ UNCHANGED <<file, prev, title, diagram_type, config, runs, flowchart,
                   fs, opts, tree, tree_lines, pc>>

GenerateFlowchart ==
    /\ pc = "generate"
    /\ diagram_type = "flowchart"
    /\ flowchart = <<>>
    /\ flowchart' = generate_mermaid_flowchart(config)
    /\ UNCHANGED <<file, prev, title, diagram_type, config, runs, mindmap,
                   fs, opts, tree, tree_lines, pc>>

NextDiagram == GenerateMindmap \/ GenerateFlowchart

SpecDiagram == InitDiagram /\ [][NextDiagram]_vars

----------------------------------------------------------------------------
(* folder_tree.py.  A directory tree is [dirs, files, denied]: the paths    *)
(* below the root (sequences of names) that are directories, those that are *)
(* files, and the directories whose listing raises PermissionError.         *)

\* the characters U+2502, U+251C, U+2514 and U+2500 of the connectors
Vert == "U+2502"
Tee == "U+251C"
Corner == "U+2514"
Dash == "U+2500"

TeeConnector == <<Tee, Dash, Dash, " ">>
CornerConnector == <<Corner, Dash, Dash, " ">>
VertExtension == <<Vert, " ", " ", " ">>
AccessDenied ==
    <<"[", "a", "c", "c", "e", "s", "s", " ", "d", "e", "n", "i", "e", "d", "]">>

\* os.path.basename(os.path.abspath(path))
RootName == <<"v", "a", "u", "l", "t">>

\* ord(c) for the characters of the names
Ord(c) ==
    CASE c = "." -> 46
      [] c = "B" -> 66
      [] c = "a" -> 97
      [] c = "b" -> 98
      [] c = "c" -> 99
      [] c = "d" -> 100
      [] c = "m" -> 109

\* str.lower()
LowerChar(c) == IF c = "B" THEN "b" ELSE c
Lower(s) == [i \in 1..Len(s) |-> LowerChar(s[i])]

\* a < b for two str
RECURSIVE StrLess(_, _)
StrLess(a, b) ==
    IF b = <<>> THEN FALSE
    ELSE IF a = <<>> THEN TRUE
    ELSE IF Head(a) # Head(b) THEN Ord(Head(a)) < Ord(Head(b))
    ELSE StrLess(Tail(a), Tail(b))

\* os.path.isdir(os.path.join(root, name))
IsDir(f, root, name) == Append(root, name) \in f.dirs

\* os.listdir(root), as a set
ListDir(f, root) ==
    {p[Len(p)] : p \in {q \in f.dirs \cup f.files : Len(q) = Len(root) + 1
                                                   /\ SubSeq(q, 1, Len(root)) = root}}

\* the sort key (not isdir, s.lower()) of a is below that of b
KeyLess(f, root, a, b) ==
    \/ IsDir(f, root, a) /\ ~IsDir(f, root, b)
    \/ /\ IsDir(f, root, a) = IsDir(f, root, b)
       /\ StrLess(Lower(a), Lower(b))

\* sorted(names, key=...)
RECURSIVE SortedEntries(_, _, _)
SortedEntries(f, root, names) ==
    IF names = {} THEN <<>>
    ELSE LET first == CHOOSE a \in names : \A b \in names : ~KeyLess(f, root, b, a)
         IN <<first>> \o SortedEntries(f, root, names \ {first})

\* fnmatch.fnmatch(name, pat) for patterns made of *, ? and plain characters
RECURSIVE FnMatch(_, _)
FnMatch(name, pat) ==
    IF pat = <<>> THEN name = <<>>
    ELSE IF Head(pat) = "*"
    THEN FnMatch(name, Tail(pat)) \/ (name # <<>> /\ FnMatch(Tail(name), pat))
    ELSE /\ name # <<>>
         /\ Head(pat) = "?" \/ Head(pat) = Head(name)
         /\ FnMatch(Tail(name), Tail(pat))

\* any(...) with all(...)
MatchesEveryPattern(name, include) ==
    \A i \in 1..Len(include) : FnMatch(name, include[i])

\* any(fnmatch.fnmatch(f, pat) for pat in include)
MatchesInclude(name, include) ==
    \E i \in 1..Len(include) : FnMatch(name, include[i])

\* [e for e in seq if ...]: the elements of seq at the positions in keep
Filter(seq, keep) ==
    LET idx == Sorted(keep)
    IN [k \in 1..Len(idx) |-> seq[idx[k]]]

\* an optional argument: Nothing for None, Some(x) for the value x
Nothing == <<>>
Some(x) == <<x>>
ValueOf(opt) == opt[1]

\* the guard with > for >=
DepthExceeded(max_depth, current_depth) ==
    max_depth # Nothing /\ current_depth > ValueOf(max_depth)

\* max_depth is not None and current_depth >= max_depth
DepthReached(max_depth, current_depth) ==
    max_depth # Nothing /\ current_depth >= ValueOf(max_depth)

\* dirs + files of one call of build_tree
Items(f, o, root) ==
    LET entries == SortedEntries(f, root, ListDir(f, root))
        dirs == Filter(entries, {i \in 1..Len(entries) :
                                    IsDir(f, root, entries[i]) /\ entries[i] \notin o.exclude})
        all_files == Filter(entries, {i \in 1..Len(entries) : ~IsDir(f, root, entries[i])})
        \* `if include:` is false for None and for an empty list
        files == IF o.include # Nothing /\ ValueOf(o.include) # <<>>
                 THEN Filter(all_files, {i \in 1..Len(all_files) :
                                            MatchesInclude(all_files[i], ValueOf(o.include))})
                 ELSE all_files
    IN dirs \o (IF o.dirs_only THEN <<>> ELSE files)

RECURSIVE build_tree(_, _, _, _, _)
RECURSIVE ItemLines(_, _, _, _, _, _, _)

\* the loop `for i, name in enumerate(items)`, from the 1-based index i on
ItemLines(f, o, root, prefix, current_depth, items, i) ==
    IF i > Len(items) THEN <<>>
    ELSE LET name == items[i]
             is_last == (i = Len(items))
             connector == IF is_last THEN CornerConnector ELSE TeeConnector
             extension == IF is_last THEN Spaces(4) ELSE VertExtension
             full_path == Append(root, name)
         IN (IF full_path \in f.dirs
             THEN <<prefix \o connector \o name \o <<"/">> >>
                  \o build_tree(f, o, full_path, prefix \o extension, current_depth + 1)
             ELSE <<prefix \o connector \o name>>)
            \o ItemLines(f, o, root, prefix, current_depth, items, i + 1)

build_tree(f, o, root, prefix, current_depth) ==
    IF DepthReached(o.max_depth, current_depth) THEN <<>>
    ELSE IF root \in f.denied THEN <<prefix \o AccessDenied>>
    ELSE ItemLines(f, o, root, prefix, current_depth, Items(f, o, root), 1)

generate_tree(f, o) ==
    Join(<<RootName \o <<"/">> >> \o build_tree(f, o, <<>>, <<>>, 0))

(* Inputs: the trees of at most MaxEntries entries and the options *)

DirNames == { <<"a">>, <<"B">> }
PlainFileNames == { <<"a">>, <<"c", ".", "m", "d">> }

\* the trees with one more entry, a directory or a file, in some directory
Grow(f) ==
    LET Free(names) == {Append(d, n) : d \in f.dirs \cup {<<>>}, n \in names}
                          \ (f.dirs \cup f.files)
    IN {[f EXCEPT !.dirs = @ \cup {p}] : p \in Free(DirNames)}
       \cup {[f EXCEPT !.files = @ \cup {p}] : p \in Free(PlainFileNames)}

RECURSIVE Trees(_)
Trees(n) ==
    IF n = 0 THEN {[dirs |-> {}, files |-> {}, denied |-> {}]}
    ELSE LET smaller == Trees(n - 1)
         IN smaller \cup UNION {Grow(f) : f \in smaller}

\* the trees, and each again with one of its directories unreadable
TreesWithDenied(n) ==
    Trees(n) \cup UNION {{[f EXCEPT !.denied = {d}] : d \in f.dirs} : f \in Trees(n)}

Options ==
    [dirs_only : BOOLEAN,
     max_depth : {Nothing} \cup {Some(d) : d \in 0..MaxDepth},
     exclude : {{}, {<<"a">>}},
     include : {Nothing, Some(<<>>), Some(<< <<"*", ".", "m", "d">> >>),
                Some(<< <<"?">>, <<"*", ".", "m", "d">> >>)}]

InitTree ==
    /\ fs \in TreesWithDenied(MaxEntries)
    /\ opts \in Options
    /\ tree = <<>>
    /\ tree_lines = <<>>
    /\ file = <<>>
    /\ prev = <<>>
    /\ title = <<>>
    /\ diagram_type = None
    /\ config = None
    /\ runs = 0
    /\ mindmap = <<>>
    /\ flowchart = <<>>
    /\ pc = "tree"

\* main: tree = generate_tree(args.path, ...)
GenerateTree ==
    /\ pc = "tree"
    /\ tree_lines' = build_tree(fs, opts, <<>>, <<>>, 0)
    /\ tree' = generate_tree(fs, opts)
    /\ pc' = "done"
    /\ UNCHANGED <<file, prev, title, diagram_type, config, runs, mindmap, flowchart,
                   fs, opts>>

NextTree == GenerateTree

SpecTree == InitTree /\ [][NextTree]_vars

----------------------------------------------------------------------------
(* Properties of the regenerate mode.  After a run, prev is the text the run *)
(* read, config the structure parsed from it and file the composed text.     *)

\* the largest element of S below j, 0 if there is none
LastBefore(S, j) == IF \E k \in S : k < j THEN Max({k \in S : k < j}) ELSE 0

MermaidLines(lines) == {i \in 1..Len(lines) : StartsWith(lines[i], MermaidFence)}

\* the first old block of a document: its opening line and its closing fence
OldStart(lines) == Min(MermaidLines(lines))
ClosingFences(lines) ==
    {i \in 1..Len(lines) : i > OldStart(lines) /\ StartsWith(lines[i], Fence)}
OldEnd(lines) == Min(ClosingFences(lines))

\* the lines of a text, none for the empty text
LinesOf(text) == IF text = <<>> THEN <<>> ELSE Split(text)

NewDiagram == Diagram(config, diagram_type)

\* C1: composer idempotence. Running the pipeline again on its own output
\* (same title, same style) returns byte-identical text.
C1_Idempotent == runs >= 2 => file = prev

\* C2: after composition the text holds exactly one line starting with
\* ```mermaid, the block there is the newly generated one, and it stands at
\* the very start when the original had no block, else where the first old
\* block was (after the same preceding text).
C2_ExactlyOneBlock ==
    runs >= 1 =>
        LET out == Split(file)
            orig == Split(prev)
            new == Split(NewDiagram)
        IN /\ Cardinality(MermaidLines(out)) = 1
           /\ LET p == OldStart(out)
              IN /\ SubSeq(out, p, p + Len(new) - 1) = new
                 /\ IF MermaidLines(orig) = {} THEN p = 1
                    ELSE RStrip(Join(SubSeq(out, 1, p - 1)))
                           = RStrip(Join(SubSeq(orig, 1, OldStart(orig) - 1)))

\* C3: when the original holds a fenced mermaid block, the output is the
\* lines before the block (trailing whitespace trimmed), exactly one blank
\* line, the new block and, if content follows the old block, exactly one
\* blank line and that content (leading whitespace trimmed); this includes a
\* block that is the first or the last thing in the document.
C3_SurroundingTextKept ==
    (runs >= 1 /\ MermaidLines(Split(prev)) # {} /\ ClosingFences(Split(prev)) # {}) =>
        LET orig == Split(prev)
            before == RStrip(Join(SubSeq(orig, 1, OldStart(orig) - 1)))
            after == LStrip(Join(SubSeq(orig, OldEnd(orig) + 1, Len(orig))))
        IN Split(file) =
               LinesOf(before) \o << <<>> >> \o Split(NewDiagram)
               \o (IF after # <<>> THEN << <<>> >> \o Split(after) ELSE <<>>)

\* the lines of the three kinds the parser recognises
SectionLines(L) == {j \in 1..Len(L) : StartsWith(L[j], H3)}
SubsectionLines(L) == {j \in 1..Len(L) : StartsWith(L[j], H4)}
LinkLines(L) == {j \in 1..Len(L) : StartsWith(L[j], LinkOpen) /\ LinkEnd(L[j]) # 0}

\* the links between line s and the next heading line of a kind in Stops
LinksOwnedBy(L, s, Stops) ==
    {j \in LinkLines(L) : j > s /\ LastBefore(Stops, j) = s}

LinkNames(L, J) == LET js == Sorted(J) IN [i \in 1..Len(js) |-> LinkName(L[js[i]])]

\* the structure the scoping rules give for the lines L
ScopedSections(L) ==
    LET secs == Sorted(SectionLines(L))
        headings == SectionLines(L) \cup SubsectionLines(L)
        SubsOf(s) == Sorted({u \in SubsectionLines(L) :
                                LastBefore(SectionLines(L), u) = s /\ s # 0})
    IN [i \in 1..Len(secs) |->
          [name |-> SectionName(L[secs[i]]),
           files |-> LinkNames(L, LinksOwnedBy(L, secs[i], headings)),
           subsections |->
              [k \in 1..Len(SubsOf(secs[i])) |->
                 [name |-> SubsectionName(L[SubsOf(secs[i])[k]]),
                  files |-> LinkNames(L, LinksOwnedBy(L, SubsOf(secs[i])[k], headings))]]]]

C5_TrimmedHeadings ==
    runs >= 1 =>
        LET L == Split(prev)
            hs == Sorted({j \in 1..Len(L) : StartsWith(Strip(L[j]), H3)})
        IN /\ Len(config.sections) = Len(hs)
           /\ \A i \in 1..Len(hs) :
                 config.sections[i].name = Strip(From(Strip(L[hs[i]]), Len(H3) + 1))

----------------------------------------------------------------------------
(* Properties of the generators *)

\* the files directly in a section, and those in a subsection
DirectFiles(c) ==
    UNION {{c.sections[i].files[j] : j \in 1..Len(c.sections[i].files)} :
              i \in 1..Len(c.sections)}

SubsectionFiles(c) ==
    UNION {UNION {{c.sections[i].subsections[u].files[j] :
                      j \in 1..Len(c.sections[i].subsections[u].files)} :
                     u \in 1..Len(c.sections[i].subsections)} :
              i \in 1..Len(c.sections)}

\* the lines between the header and the closing fence
Body(text) == LET L == Split(text) IN SubSeq(L, 3, Len(L) - 1)

\* the part of the mindmap's line i (of its body) that comes from a label
MindmapLabel(body, i) ==
    IF i = 1 THEN SubSeq(body[1], Len(RootOpen) + 1, Len(body[1]) - Len(RootClose))
    ELSE body[i]

\* C6: in the mindmap every ( and ) that comes from a label (the title, a
\* section, subsection or file name) is immediately preceded by a backslash.
C6_ParensEscaped ==
    mindmap # <<>> =>
        LET body == Body(mindmap)
        IN \A i \in 1..Len(body) :
              LET lab == MindmapLabel(body, i)
              IN \A p \in 1..Len(lab) :
                    lab[p] \in {"(", ")"} => (p > 1 /\ lab[p - 1] = "\\")

\* a flowchart line declares a node when it holds a [, else it is an edge
IsDeclaration(l) == Find(l, <<"[">>, 1) # 0
DeclaredId(l) == SubSeq(l, 5, Find(l, <<"[">>, 1) - 1)
EdgeEnds(l) == <<SubSeq(l, 5, Find(l, Arrow, 1) - 1), From(l, Find(l, Arrow, 1) + Len(Arrow))>>

\* the identifiers declared by the lines, in order
RECURSIVE DeclaredIds(_)
DeclaredIds(body) ==
    IF body = <<>> THEN <<>>
    ELSE (IF IsDeclaration(Head(body)) THEN <<DeclaredId(Head(body))>> ELSE <<>>)
         \o DeclaredIds(Tail(body))

\* the edges of the lines, in order
RECURSIVE Edges(_)
Edges(body) ==
    IF body = <<>> THEN <<>>
    ELSE (IF IsDeclaration(Head(body)) THEN <<>> ELSE <<EdgeEnds(Head(body))>>)
         \o Edges(Tail(body))

\* for every node but the root, in the order root, section, its files, its
\* subsections each followed by its files: the position of the node's parent
RECURSIVE SubsectionParents(_, _, _)
SubsectionParents(subs, sec, pos) ==
    IF subs = <<>> THEN <<>>
    ELSE <<sec>> \o [i \in 1..Len(Head(subs).files) |-> pos]
         \o SubsectionParents(Tail(subs), sec, pos + 1 + Len(Head(subs).files))

RECURSIVE SectionParents(_, _)
SectionParents(secs, pos) ==
    IF secs = <<>> THEN <<>>
    ELSE LET s == Head(secs)
             below == [i \in 1..Len(s.files) |-> pos]
                      \o SubsectionParents(s.subsections, pos, pos + 1 + Len(s.files))
         IN <<1>> \o below \o SectionParents(Tail(secs), pos + 1 + Len(below))

\* C7: in the flowchart every node (root, section, file, subsection,
\* subsection file) is declared exactly once under an identifier of its own,
\* every end of an edge is a declared identifier, and the edges are exactly
\* those from each node's parent to the node.
C7_FlowchartIds ==
    flowchart # <<>> =>
        LET body == Body(flowchart)
            ids == DeclaredIds(body)
            edges == Edges(body)
            parents == SectionParents(config.sections, 2)
            declared == {ids[k] : k \in 1..Len(ids)}
        IN /\ Len(ids) = 1 + Len(parents)
           /\ Cardinality(declared) = Len(ids)
           /\ \A k \in 1..Len(edges) : edges[k][1] \in declared /\ edges[k][2] \in declared
           /\ Len(edges) = Len(parents)
           /\ {edges[k] : k \in 1..Len(edges)}
                 = {<<ids[parents[k]], ids[k + 1]>> : k \in 1..Len(parents)}

\* two sections of the same name, the first with two direct files of the same
\* name and a subsection with a file
C7_Witness ==
    /\ flowchart # <<>>
    /\ Len(config.sections) >= 2
    /\ config.sections[1].name = config.sections[2].name
    /\ Len(config.sections[1].files) >= 1
    /\ config.sections[1].subsections # <<>>
    /\ config.sections[1].subsections[1].files # <<>>

\* the name without a trailing .md or .MD
WithoutSuffix(f) ==
    IF Len(f) >= 3 /\ SubSeq(f, Len(f) - 2, Len(f)) \in {DotMd, DotMD}
    THEN SubSeq(f, 1, Len(f) - 3)
    ELSE f

\* C8: the label of a file, in the mindmap and in the flowchart, is its name
\* with a trailing .md or .MD removed and every other character kept.
C8_SuffixStripped ==
    LET MindmapShows(f, indent) ==
            \E i \in 1..Len(Body(mindmap)) :
               Body(mindmap)[i] = Spaces(indent) \o EscapeParens(WithoutSuffix(f))
        FlowchartShows(f) ==
            \E i \in 1..Len(Body(flowchart)) :
               LET l == Body(flowchart)[i]
               IN /\ IsDeclaration(l)
                  /\ From(l, Find(l, <<"[">>, 1))
                        = LabelOpen \o EscapeQuotes(WithoutSuffix(f)) \o LabelClose
    IN /\ mindmap # <<>> =>
            /\ \A f \in DirectFiles(config) : MindmapShows(f, 6)
            /\ \A f \in SubsectionFiles(config) : MindmapShows(f, 8)
       /\ flowchart # <<>> =>
            \A f \in DirectFiles(config) \cup SubsectionFiles(config) : FlowchartShows(f)

----------------------------------------------------------------------------
(* Properties of the tree renderer, read off the rendered lines *)

\* the placeholder line of a directory that could not be listed
IsPlaceholder(l) ==
    /\ Len(l) >= Len(AccessDenied)
    /\ From(l, Len(l) - Len(AccessDenied) + 1) = AccessDenied

\* where the connector of an entry line starts
ConnectorAt(l) == Min({i \in 1..Len(l) : l[i] \in {Tee, Corner}})

\* depth of the entry of a line: children of the root are at depth 1
LineDepth(l) == (ConnectorAt(l) - 1) \div 4 + 1

LineIsDir(l) == l[Len(l)] = "/"

LineName(l) ==
    LET rest == From(l, ConnectorAt(l) + 4)
    IN IF LineIsDir(l) THEN SubSeq(rest, 1, Len(rest) - 1) ELSE rest

\* the path of the entry of line i: its name under the path of the nearest
\* line above it that is one level up
RECURSIVE LinePath(_, _)
LinePath(lines, i) ==
    IF LineDepth(lines[i]) = 1 THEN <<LineName(lines[i])>>
    ELSE LET up == Max({j \in 1..(i - 1) : /\ ~IsPlaceholder(lines[j])
                                           /\ LineDepth(lines[j]) = LineDepth(lines[i]) - 1})
         IN Append(LinePath(lines, up), LineName(lines[i]))

Shown(lines, i) == [path |-> LinePath(lines, i), dir |-> LineIsDir(lines[i])]

NoExcludedAncestor(p, exclude) == \A k \in 1..(Len(p) - 1) : p[k] \notin exclude

\* the entries of the tree that survive the exclusion and inclusion sets
Survivors(f, o) ==
    {[path |-> p, dir |-> TRUE] :
        p \in {q \in f.dirs : q[Len(q)] \notin o.exclude /\ NoExcludedAncestor(q, o.exclude)}}
    \cup
    {[path |-> p, dir |-> FALSE] :
        p \in {q \in f.files :
                 /\ NoExcludedAncestor(q, o.exclude)
                 /\ (o.include # Nothing /\ ValueOf(o.include) # <<>>) =>
                       \E i \in 1..Len(ValueOf(o.include)) :
                          FnMatch(q[Len(q)], ValueOf(o.include)[i])}}

Unlimited == pc = "done" /\ opts.max_depth = Nothing /\ ~opts.dirs_only /\ fs.denied = {}

\* C9: with no depth limit, dirs-only off and every directory readable, the
\* lines of build_tree correspond one-to-one to the surviving entries: each
\* kept directory and each kept file on exactly one line, nothing from inside
\* an excluded directory.
C9_TreeComplete ==
    Unlimited =>
        /\ Cardinality({Shown(tree_lines, i) : i \in 1..Len(tree_lines)}) = Len(tree_lines)
        /\ {Shown(tree_lines, i) : i \in 1..Len(tree_lines)} = Survivors(fs, opts)

\* an excluded directory with something inside, a file the inclusion patterns
\* reject, and something rendered
C9_Witness ==
    /\ Unlimited
    /\ tree_lines # <<>>
    /\ \E d \in fs.dirs : d[Len(d)] \in opts.exclude /\ ListDir(fs, d) # {}
    /\ opts.include # Nothing /\ ValueOf(opts.include) # <<>>
    /\ \E q \in fs.files : ~MatchesInclude(q[Len(q)], ValueOf(opts.include))

\* C10: with a maximum depth d, no line is rendered for an entry deeper than
\* d, a cut branch leaves no marker (every line is an entry of the tree, or
\* the placeholder of an unreadable directory), and with d = 0 generate_tree
\* returns the root line alone.
C10_DepthLimit ==
    (pc = "done" /\ opts.max_depth # Nothing) =>
        /\ \A i \in 1..Len(tree_lines) :
              IF IsPlaceholder(tree_lines[i]) THEN fs.denied # {}
              ELSE /\ LineDepth(tree_lines[i]) <= ValueOf(opts.max_depth)
                   /\ LinePath(tree_lines, i) \in fs.dirs \cup fs.files
        /\ ValueOf(opts.max_depth) = 0 => tree = RootName \o <<"/">>

\* a branch was cut: an entry lies deeper than the limit, and lines were rendered
C10_Witness ==
    /\ pc = "done"
    /\ opts.max_depth = Some(1)
    /\ tree_lines # <<>>
    /\ \E p \in fs.dirs \cup fs.files : Len(p) > 1 /\ NoExcludedAncestor(p, opts.exclude)

====
